---- MODULE Spec2Model ----
(***************************************************************************)
(* Model of lovego/filestorage: the upload orchestrator (Bucket.Save), the *)
(* content store (writeFile / scp replication) and the link ledger (Link,  *)
(* LinkOnly, Unlink, UnlinkAllOf) over a relational store with             *)
(* read-committed transactions.                                            *)
(*                                                                         *)
(* Callers are processes.  A call is started by a Start* action, which     *)
(* draws the arguments, and then runs one statement or system call per     *)
(* step.  SQL statements are atomic; statements of different callers       *)
(* interleave.                                                             *)
(***************************************************************************)
EXTENDS Integers, Sequences, FiniteSets, TLC

(***************************************************************************)
(* Bounds of the model.                                                    *)
(***************************************************************************)
NumProcs == 2       \* concurrent callers
MaxCalls == 2       \* calls made in one run, over all callers
MaxFaults == 1      \* I/O and database failures injected in one run
MaxContent == 2     \* distinct file contents
MaxFiles == 2       \* files of one Save call
MaxHashes == 2      \* hashes of one ledger call
NumRemotes == 2     \* configured non-local machines

Procs == 1..NumProcs
Contents == 1..MaxContent

(***************************************************************************)
(* Values.  A byte string and a hash are tuples of numbers; a hash is      *)
(* HashLen hex digits.  The empty string given as a hash is << >>.         *)
(***************************************************************************)
HashLen == 2
DirDepth == 1

Bytes(c) == <<c, 7>>

HashOf(b) == <<b[1] % 16, (b[1] + b[2]) % 16>>

DetectContentType(b) == IF b[1] % 2 = 1 THEN <<"image", "png">> ELSE <<"text", "plain">>

ContentHashes == {HashOf(Bytes(c)) : c \in Contents}

EmptyString == << >>
BadHash == <<16>>
HashTokens == ContentHashes \cup {EmptyString, BadHash}

CheckHash(files) == \A i \in 1..Len(files) :
    Len(files[i]) = HashLen /\ \A k \in 1..HashLen : files[i][k] \in 0..15

Objects == {"", "a|1", "b|2"}

\* The handle a caller passes: nil, the raw connection (*sql.DB), or its own
\* open transaction (*sql.Tx).
Handles == {"nil", "raw", "tx"}

RECURSIVE SeqsUpTo(_, _)
SeqsUpTo(S, n) == IF n = 0 THEN {<< >>}
                  ELSE LET shorter == SeqsUpTo(S, n - 1)
                       IN shorter \cup {Append(s, x) : s \in {t \in shorter : Len(t) = n - 1}, x \in S}

FileLists == SeqsUpTo(Contents, MaxFiles)
\* The hash arguments of a ledger call: lists of hashes and malformed hashes,
\* and the single empty string.
HashLists == SeqsUpTo(ContentHashes \cup {BadHash}, MaxHashes) \cup {<<EmptyString>>}

Range(s) == {s[i] : i \in 1..Len(s)}

(***************************************************************************)
(* Hash addressing.                                                        *)
(***************************************************************************)
FilePath(hash) == [i \in 1..DirDepth |-> <<hash[i]>>] \o <<hash>>

Paths == {FilePath(h) : h \in ContentHashes}

Absent == <<-1>>

(***************************************************************************)
(* Errors.                                                                 *)
(***************************************************************************)
errEmptyObject == "object is empty"
errFileNotExists == "some file not exists"
errInvalidHash == "invalid hash"
errNotImage == "file type is not an image"
errTooLarge == "file size exceeds 2MB"
errIO == "io error"
errScp == "scp failed"
errDB == "database error"

VARIABLES
    Machines,   \* Bucket.Machines: 0 is an address of this host, i > 0 a remote machine
    filesTbl,   \* committed rows of the files table, in insertion order
    linksTbl,   \* committed rows of the links table, in insertion order
    txn,        \* per caller: its open transaction (rows staged, rows deleted)
    clock,      \* time.Now()
    disk,       \* local store: path -> bytes, or Absent
    remote,     \* remote machine -> path -> bytes, or Absent
    pc,         \* per caller: where it is in its call
    call,       \* per caller: the arguments of its current or last call
    idx,        \* per caller: index of the file Save is writing
    mi,         \* per caller: index into otherMachines of the next scp
    ret,        \* per caller: what the work function returned to runInTx
    last,       \* the call that returned in the latest step, with what it returned
    calls,      \* calls started so far
    faults      \* failures injected so far

vars == <<Machines, filesTbl, linksTbl, txn, clock, disk, remote, pc, call, idx, mi, ret, last,
          calls, faults>>

(***************************************************************************)
(* Bucket configuration.                                                   *)
(***************************************************************************)
RemoteList == [i \in 1..NumRemotes |-> i]

MachineLists == {RemoteList, <<RemoteList[1], 0>> \o Tail(RemoteList)}

IsLocalhost(addr) == addr = 0

localMachine == \E i \in 1..Len(Machines) : IsLocalhost(Machines[i])

otherMachines == SelectSeq(Machines, LAMBDA addr : ~IsLocalhost(addr))

(***************************************************************************)
(* The relational store.  A statement runs on a handle: "nil" and "raw"    *)
(* commit at once, "tx" is the caller's transaction and "own" the one      *)
(* runInTx started.  A transaction sees the committed rows and its own     *)
(* changes (read committed).                                               *)
(***************************************************************************)
getDB(db) == IF db = "nil" THEN "raw" ELSE db

InTx(db) == getDB(db) \in {"tx", "own"}

NoTxn == [active |-> FALSE, files |-> << >>, links |-> << >>, dels |-> {}]

FileRow(h) == [hash |-> h]

LinkRow(f, o, t) == [file |-> f, object |-> o, created_at |-> t]

KeyOf(row) == IF "hash" \in DOMAIN row THEN <<row.hash>> ELSE <<row.file, row.object>>

Keys(rows) == {KeyOf(rows[i]) : i \in 1..Len(rows)}

FilesView(p, db) == IF InTx(db) THEN filesTbl \o txn[p].files ELSE filesTbl

LinksView(p, db) ==
    IF InTx(db)
    THEN SelectSeq(linksTbl, LAMBDA r : r \notin txn[p].dels) \o txn[p].links
    ELSE linksTbl

\* Keys another open transaction has inserted or deleted and not yet
\* committed: a statement touching one of them waits for that transaction.
LockedKeys(p) == UNION {Keys(txn[q].files) \cup Keys(txn[q].links) \cup {KeyOf(r) : r \in txn[q].dels}
                        : q \in {q \in Procs \ {p} : txn[q].active}}

\* INSERT ... ON CONFLICT DO NOTHING: the rows whose key is not yet present.
RECURSIVE NewRows(_, _)
NewRows(have, rows) ==
    IF rows = << >> THEN << >>
    ELSE IF KeyOf(Head(rows)) \in have THEN NewRows(have, Tail(rows))
    ELSE <<Head(rows)>> \o NewRows(have \cup {KeyOf(Head(rows))}, Tail(rows))

\* A plain INSERT: a row whose key is present violates the unique constraint.
InsertPlain(view, rows) ==
    IF NewRows(Keys(view), rows) # rows THEN [err |-> errDB, added |-> << >>]
    ELSE [err |-> "nil", added |-> rows]

\* An INSERT into a table without the unique index: every row is added.
InsertWithoutIndex(view, rows) == [err |-> "nil", added |-> rows]

InsertOnConflictDoNothing(view, rows) == [err |-> "nil", added |-> NewRows(Keys(view), rows)]

\* WHERE conditions of the DELETE: "" , filesCond(files, "") and filesCond(files, "NOT").
NoCond == [not |-> TRUE, files |-> {}]

\* filesCond that leaves out the NOT it is given.
filesCondWithoutNot(files, not) == [not |-> FALSE, files |-> Range(files)]

filesCond(files, not) == [not |-> not = "NOT", files |-> Range(files)]

\* A DELETE whose WHERE has lost the condition on the file.
MatchesObjectOnly(row, object, conds) == row.object = object

Matches(row, object, conds) ==
    /\ row.object = object
    /\ IF conds.not THEN row.file \notin conds.files ELSE row.file \in conds.files

\* emptyFiles without the case of the one empty string.
emptyFilesNoneOnly(files) == Len(files) = 0

emptyFiles(files) == Len(files) = 0 \/ (Len(files) = 1 /\ files[1] = EmptyString)

\* CheckFile: the hashes that have no row in the files table.
MissingFiles(view, files) == {files[i] : i \in 1..Len(files)} \ {view[i].hash : i \in 1..Len(view)}

\* CheckFile without its query, and CheckFile looking at the first hash only.
CheckFileSkipped(view, files) == "nil"

CheckFileFirstOnly(view, files) ==
    IF MissingFiles(view, <<files[1]>>) # {} THEN errFileNotExists ELSE "nil"

CheckFile(view, files) == IF MissingFiles(view, files) # {} THEN errFileNotExists ELSE "nil"

(***************************************************************************)
(* Statements.  Each gives the store after it ran on handle db, with t the *)
(* caller's transaction: [filesTbl, linksTbl, t].                          *)
(***************************************************************************)
Store(t) == [filesTbl |-> filesTbl, linksTbl |-> linksTbl, t |-> t]

ExecInsertFiles(db, t, rows) ==
    IF InTx(db) THEN [Store(t) EXCEPT !.t.files = @ \o rows]
    ELSE [Store(t) EXCEPT !.filesTbl = @ \o rows]

ExecInsertLinks(db, t, rows) ==
    IF InTx(db) THEN [Store(t) EXCEPT !.t.links = @ \o rows]
    ELSE [Store(t) EXCEPT !.linksTbl = @ \o rows]

\* unlink: DELETE FROM links WHERE object = ... conds
ExecDelete(db, t, object, conds) ==
    IF InTx(db)
    THEN [Store(t) EXCEPT
            !.t.dels = @ \cup {r \in Range(linksTbl) : Matches(r, object, conds)},
            !.t.links = SelectSeq(@, LAMBDA r : ~Matches(r, object, conds))]
    ELSE [Store(t) EXCEPT !.linksTbl = SelectSeq(@, LAMBDA r : ~Matches(r, object, conds))]

DeleteKeys(view, object, conds) == {KeyOf(r) : r \in {x \in Range(view) : Matches(x, object, conds)}}

Commit(t) == [filesTbl |-> filesTbl \o t.files,
              linksTbl |-> SelectSeq(linksTbl, LAMBDA r : r \notin t.dels) \o t.links,
              t |-> NoTxn]

\* A rollback that keeps what the transaction staged.
RollbackKeeping(t) == Commit(t)

Rollback(t) == Store(NoTxn)

(***************************************************************************)
(* The check function and createFileRecords.                               *)
(***************************************************************************)
MaxImageSize == 2 * 1048576

\* A check that accepts every file.
imageCheckerAcceptsAll(contentType, size) == "nil"

imageCheckerCheck(contentType, size) ==
    IF contentType[1] # "image" THEN errNotImage
    ELSE IF size > MaxImageSize THEN errTooLarge
    ELSE "nil"

Checks == {"accept", "image"}

ApplyCheck(fileCheck, contentType, size) ==
    IF fileCheck = "image" THEN imageCheckerCheck(contentType, size) ELSE "nil"

\* The records of the files, or the error of the first file the check rejects.
createFileRecords(files, fileCheck) ==
    LET errOf(i) == ApplyCheck(fileCheck, DetectContentType(Bytes(files[i])), Len(Bytes(files[i])))
        bad == {i \in 1..Len(files) : errOf(i) # "nil"}
    IN IF bad # {}
       THEN [err |-> errOf(CHOOSE i \in bad : \A j \in bad : i <= j), hashes |-> << >>]
       ELSE [err |-> "nil", hashes |-> [i \in 1..Len(files) |-> HashOf(Bytes(files[i]))]]

(***************************************************************************)
(* Control.  A continuation is [pc, idx, mi, ret].                         *)
(***************************************************************************)
NoRet == [hashes |-> << >>, err |-> "none"]

NoCall == [op |-> "none", db |-> "nil", check |-> "accept", object |-> "", files |-> << >>,
           hashes |-> << >>, retry |-> FALSE]

\* Whether the call runs its work under runInTx, and whether runInTx begins a
\* transaction for it: only for a *sql.DB.
UsesRunInTx(c) ==
    \/ c.op = "Save" /\ Len(c.files) # 0
    \/ c.op = "LinkOnly" /\ c.object # "" /\ ~emptyFiles(c.hashes)

\* runInTx beginning a transaction of its own for whatever handle it is given
\* but nil.
runInTxBeginsAlways(c) == UsesRunInTx(c) /\ c.db \in {"raw", "tx"}

runInTxBegins(c) == UsesRunInTx(c) /\ c.db = "raw"

\* The handle the work function is given, and the handle each call gives Link
\* and unlink.
WorkDb(c) == IF runInTxBegins(c) THEN "own" ELSE c.db

SaveDb(c) == WorkDb(c)

LinkOnlyDb(c) == c.db

LinkDb(c) == IF c.op = "Save" THEN SaveDb(c) ELSE IF c.op = "LinkOnly" THEN LinkOnlyDb(c) ELSE c.db

Goto(label, i, m) == [pc |-> label, idx |-> i, mi |-> m, ret |-> NoRet]

\* The work function returns: runInTx still has to commit or roll back the
\* transaction it began.
Return(c, hashes, err) ==
    [pc |-> IF runInTxBegins(c) THEN "end" ELSE IF c.db = "tx" THEN "caller" ELSE "idle",
     idx |-> 0, mi |-> 0, ret |-> [hashes |-> hashes, err |-> err]]

\* BeginTx failed: runInTx returns the error.
BeginFailed(c) == [Return(c, << >>, errDB) EXCEPT !.pc = "idle"]

NoLast == [proc |-> 0, call |-> NoCall, ret |-> NoRet]

Returned(k) == k.pc \in {"idle", "caller"}

FirstWrite(i) == Goto(IF localMachine THEN "stat" ELSE "temp", i, 0)

NextFile(c, i) ==
    IF i + 1 > Len(c.hashes) THEN Return(c, c.hashes, "nil") ELSE FirstWrite(i + 1)

Replicate(c, i, m) ==
    IF m > Len(otherMachines) THEN NextFile(c, i) ELSE Goto("scp", i, m)

AfterLink(c) ==
    IF c.op = "Save" THEN FirstWrite(1)
    ELSE IF c.op = "LinkOnly" THEN Goto("unlink", 0, 0)
    ELSE Return(c, << >>, "nil")

\* Caller p, in call c, goes on at k.
Go(p, c, k) ==
    /\ pc' = [pc EXCEPT ![p] = k.pc]
    /\ idx' = [idx EXCEPT ![p] = k.idx]
    /\ mi' = [mi EXCEPT ![p] = k.mi]
    /\ ret' = [ret EXCEPT ![p] = IF Returned(k) THEN NoRet ELSE k.ret]
    /\ call' = [call EXCEPT ![p] = IF Returned(k) THEN NoCall ELSE c]
    /\ last' = IF Returned(k) THEN [proc |-> p, call |-> c, ret |-> k.ret] ELSE NoLast

Db(p, d) ==
    /\ filesTbl' = d.filesTbl
    /\ linksTbl' = d.linksTbl
    /\ txn' = [txn EXCEPT ![p] = d.t]

FaultChoices == IF faults < MaxFaults THEN {FALSE, TRUE} ELSE {FALSE}

Fault(fail) == faults' = IF fail THEN faults + 1 ELSE faults

\* Callers are numbered in the order in which they are first needed: a
\* caller starts a call only when every caller before it is busy.
Startable(p) == pc[p] = "idle" /\ calls < MaxCalls /\ \A q \in 1..(p - 1) : pc[q] # "idle"

Begin == calls' = calls + 1

\* The caller's transaction is open when it passes it; runInTx begins one
\* for a raw connection.
TxnAtStart(c) == [NoTxn EXCEPT !.active = (c.db = "tx" \/ runInTxBegins(c))]

Init ==
    /\ Machines \in MachineLists
    /\ filesTbl = << >>
    /\ linksTbl = << >>
    /\ txn = [p \in Procs |-> NoTxn]
    /\ clock = 1
    /\ disk = [path \in Paths |-> Absent]
    /\ remote = [m \in 1..NumRemotes |-> [path \in Paths |-> Absent]]
    /\ pc = [p \in Procs |-> "idle"]
    /\ call = [p \in Procs |-> NoCall]
    /\ idx = [p \in Procs |-> 0]
    /\ mi = [p \in Procs |-> 0]
    /\ ret = [p \in Procs |-> NoRet]
    /\ last = NoLast
    /\ calls = 0
    /\ faults = 0

(***************************************************************************)
(* Link's checks before its INSERT: the error, "noop" for nothing to link, *)
(* or "nil" when the INSERT is to run.                                     *)
(***************************************************************************)
LinkChecks(object, files, view) ==
    IF object = "" THEN errEmptyObject
    ELSE IF emptyFiles(files) THEN "noop"
    ELSE IF ~CheckHash(files) THEN errInvalidHash
    ELSE CheckFile(view, files)

\* Whether Link reaches its CheckFile query.
ReachesQuery(object, files) == object # "" /\ ~emptyFiles(files) /\ CheckHash(files)

AfterLinkChecks(c, pre) ==
    IF pre = "nil" THEN Goto("link_ins", 0, 0)
    ELSE IF pre = "noop" THEN AfterLink(c)
    ELSE Return(c, << >>, pre)

(***************************************************************************)
(* Save: runInTx, createFileRecords.                                       *)
(***************************************************************************)
Save(p, c) ==
    /\ Begin
    /\ UNCHANGED <<Machines, clock, disk, remote>>
    /\ IF Len(c.files) = 0
       THEN Go(p, c, Return(c, << >>, "nil")) /\ Db(p, Store(TxnAtStart(c))) /\ Fault(FALSE)
       ELSE \E beginFails \in IF runInTxBegins(c) THEN FaultChoices ELSE {FALSE} :
            IF beginFails
            THEN Go(p, c, BeginFailed(c)) /\ Db(p, Store(NoTxn)) /\ Fault(TRUE)
            ELSE LET recs == createFileRecords(c.files, c.check)
                     rows == [i \in 1..Len(recs.hashes) |-> FileRow(recs.hashes[i])]
                     ins == InsertOnConflictDoNothing(FilesView(p, SaveDb(c)), rows)
                 IN IF recs.err # "nil"
                    THEN Go(p, c, Return(c, << >>, recs.err)) /\ Db(p, Store(TxnAtStart(c))) /\ Fault(FALSE)
                    ELSE /\ Keys(rows) \cap LockedKeys(p) = {}
                         /\ \E fail \in FaultChoices :
                            /\ Fault(fail)
                            /\ IF fail \/ ins.err # "nil"
                               THEN Go(p, c, Return(c, << >>, IF fail THEN errDB ELSE ins.err))
                                    /\ Db(p, Store(TxnAtStart(c)))
                               ELSE Go(p, [c EXCEPT !.hashes = recs.hashes],
                                       IF c.object # "" THEN Goto("link_chk", 0, 0) ELSE FirstWrite(1))
                                    /\ Db(p, ExecInsertFiles(SaveDb(c), TxnAtStart(c), ins.added))

\* Whether this Save repeats the Save that has just failed in its physical
\* write or its replication: same check, same object, same files.
IsRetry(fileCheck, object, files) ==
    /\ last.call.op = "Save"
    /\ last.ret.err \in {errIO, errScp}
    /\ last.call.check = fileCheck /\ last.call.object = object /\ last.call.files = files

StartSave(p) ==
    /\ Startable(p)
    /\ \E db \in Handles, fileCheck \in Checks, object \in Objects, files \in FileLists :
          Save(p, [op |-> "Save", db |-> db, check |-> fileCheck, object |-> object,
                   files |-> files, hashes |-> << >>,
                   retry |-> IsRetry(fileCheck, object, files)])

\* Save's call of Link, up to the CheckFile query.
LinkCheck(p) ==
    /\ pc[p] = "link_chk"
    /\ UNCHANGED <<Machines, clock, disk, remote, calls, filesTbl, linksTbl, txn>>
    /\ LET c == call[p]
           pre == LinkChecks(c.object, c.hashes, FilesView(p, LinkDb(c)))
       IN \E fail \in IF ReachesQuery(c.object, c.hashes) THEN FaultChoices ELSE {FALSE} :
            /\ Fault(fail)
            /\ Go(p, c, IF fail THEN Return(c, << >>, errDB) ELSE AfterLinkChecks(c, pre))

\* Link's INSERT, for Link, LinkOnly and Save.
LinkInsert(p) ==
    /\ pc[p] = "link_ins"
    /\ UNCHANGED <<Machines, disk, remote, calls>>
    /\ LET c == call[p]
           now == clock
           values == [i \in 1..Len(c.hashes) |-> LinkRow(c.hashes[i], c.object, now)]
           ins == InsertOnConflictDoNothing(LinksView(p, LinkDb(c)), values)
       IN /\ Keys(values) \cap LockedKeys(p) = {}
          /\ clock' = clock + 1
          /\ \E fail \in FaultChoices :
               /\ Fault(fail)
               /\ IF fail \/ ins.err # "nil"
                  THEN Go(p, c, Return(c, << >>, IF fail THEN errDB ELSE ins.err)) /\ Db(p, Store(txn[p]))
                  ELSE Go(p, c, AfterLink(c)) /\ Db(p, ExecInsertLinks(LinkDb(c), txn[p], ins.added))

(***************************************************************************)
(* saveFile: writeFile or writeTempFile, then scp to each other machine.   *)
(***************************************************************************)
destPath(p) == FilePath(call[p].hashes[idx[p]])

fileBytes(p) == Bytes(call[p].files[idx[p]])

\* What scp reads at srcPath: the destination file, or the temporary file.
srcData(p) == IF localMachine THEN disk[destPath(p)] ELSE fileBytes(p)

\* os.Stat(destPath): the file is there, is not there, or Stat fails otherwise.
WriteStat(p) ==
    /\ pc[p] = "stat"
    /\ UNCHANGED <<Machines, clock, disk, remote, calls, filesTbl, linksTbl, txn>>
    /\ \E fail \in FaultChoices :
         /\ Fault(fail)
         /\ IF fail THEN Go(p, call[p], Return(call[p], << >>, errIO))
            ELSE IF disk[destPath(p)] # Absent
            THEN Go(p, call[p], Replicate(call[p], idx[p], 1))
            ELSE Go(p, call[p], Goto("create", idx[p], 0))

\* os.MkdirAll and os.OpenFile with O_CREATE|O_EXCL
WriteCreate(p) ==
    /\ pc[p] = "create"
    /\ UNCHANGED <<Machines, clock, remote, calls, filesTbl, linksTbl, txn>>
    /\ IF disk[destPath(p)] # Absent
       THEN Go(p, call[p], Replicate(call[p], idx[p], 1)) /\ UNCHANGED disk /\ Fault(FALSE)
       ELSE \E fail \in FaultChoices :
            /\ Fault(fail)
            /\ IF fail
               THEN Go(p, call[p], Return(call[p], << >>, errIO)) /\ UNCHANGED disk
               ELSE Go(p, call[p], Goto("copy", idx[p], 0)) /\ disk' = [disk EXCEPT ![destPath(p)] = << >>]

\* io.Copy(destFile, file): a failed copy leaves the bytes written so far.
WriteCopy(p) ==
    /\ pc[p] = "copy"
    /\ UNCHANGED <<Machines, clock, remote, calls, filesTbl, linksTbl, txn>>
    /\ \E fail \in FaultChoices :
         /\ Fault(fail)
         /\ IF fail
            THEN /\ \E k \in 0..(Len(fileBytes(p)) - 1) :
                      disk' = [disk EXCEPT ![destPath(p)] = SubSeq(fileBytes(p), 1, k)]
                 /\ Go(p, call[p], Return(call[p], << >>, errIO))
            ELSE /\ disk' = [disk EXCEPT ![destPath(p)] = fileBytes(p)]
                 /\ Go(p, call[p], Replicate(call[p], idx[p], 1))

WriteTemp(p) ==
    /\ pc[p] = "temp"
    /\ UNCHANGED <<Machines, clock, disk, remote, calls, filesTbl, linksTbl, txn>>
    /\ \E fail \in FaultChoices :
         /\ Fault(fail)
         /\ Go(p, call[p], IF fail THEN Return(call[p], << >>, errIO) ELSE Replicate(call[p], idx[p], 1))

\* scp in a loop that goes on to the next machine after a failed copy.
ScpIgnoringFailure(p) ==
    /\ pc[p] = "scp"
    /\ UNCHANGED <<Machines, clock, disk, calls, filesTbl, linksTbl, txn>>
    /\ LET addr == otherMachines[mi[p]]
       IN \E fail \in FaultChoices :
            /\ Fault(fail)
            /\ remote' = IF fail THEN remote ELSE [remote EXCEPT ![addr][destPath(p)] = srcData(p)]
            /\ Go(p, call[p], Replicate(call[p], idx[p], mi[p] + 1))

\* exec.Command("scp", srcPath, addr+":"+destPath).Run()
Scp(p) ==
    /\ pc[p] = "scp"
    /\ UNCHANGED <<Machines, clock, disk, calls, filesTbl, linksTbl, txn>>
    /\ LET addr == otherMachines[mi[p]]
       IN \E fail \in FaultChoices :
            /\ Fault(fail)
            /\ IF fail
               THEN Go(p, call[p], Return(call[p], << >>, errScp)) /\ UNCHANGED remote
               ELSE /\ remote' = [remote EXCEPT ![addr][destPath(p)] = srcData(p)]
                    /\ Go(p, call[p], Replicate(call[p], idx[p], mi[p] + 1))

(***************************************************************************)
(* runInTx's end: Rollback on an error, Commit otherwise.                  *)
(***************************************************************************)
EndTx(p) ==
    /\ pc[p] = "end"
    /\ UNCHANGED <<Machines, clock, disk, remote, calls>>
    /\ IF ret[p].err # "nil"
       THEN /\ Db(p, Rollback(txn[p])) /\ Fault(FALSE)
            /\ Go(p, call[p], [pc |-> "idle", idx |-> 0, mi |-> 0, ret |-> ret[p]])
       ELSE \E fail \in FaultChoices :
            /\ Fault(fail)
            /\ IF fail
               THEN /\ Db(p, Rollback(txn[p]))
                    /\ Go(p, call[p], [pc |-> "idle", idx |-> 0, mi |-> 0,
                                       ret |-> [ret[p] EXCEPT !.err = errDB]])
               ELSE /\ Db(p, Commit(txn[p]))
                    /\ Go(p, call[p], [pc |-> "idle", idx |-> 0, mi |-> 0, ret |-> ret[p]])

\* The caller ends the transaction it passed in.
CallerCommit(p) ==
    /\ pc[p] = "caller"
    /\ Db(p, Commit(txn[p]))
    /\ pc' = [pc EXCEPT ![p] = "idle"]
    /\ last' = NoLast
    /\ UNCHANGED <<Machines, clock, disk, remote, call, calls, idx, mi, ret, faults>>

CallerRollback(p) ==
    /\ pc[p] = "caller"
    /\ Db(p, Rollback(txn[p]))
    /\ pc' = [pc EXCEPT ![p] = "idle"]
    /\ last' = NoLast
    /\ UNCHANGED <<Machines, clock, disk, remote, call, calls, idx, mi, ret, faults>>

(***************************************************************************)
(* The link ledger's calls.                                                *)
(***************************************************************************)
LedgerCall(op, db, object, files) ==
    [op |-> op, db |-> db, check |-> "accept", object |-> object, files |-> << >>, hashes |-> files,
     retry |-> FALSE]

\* One DELETE on handle db, as the whole rest of the call.
unlink(p, c, db, t, object, conds) ==
    /\ DeleteKeys(LinksView(p, db), object, conds) \cap LockedKeys(p) = {}
    /\ \E fail \in FaultChoices :
         /\ Fault(fail)
         /\ IF fail
            THEN Go(p, c, Return(c, << >>, errDB)) /\ Db(p, Store(t))
            ELSE Go(p, c, Return(c, << >>, "nil")) /\ Db(p, ExecDelete(db, t, object, conds))

Link(p, c) ==
    /\ Begin
    /\ UNCHANGED <<Machines, clock, disk, remote>>
    /\ Db(p, Store(TxnAtStart(c)))
    /\ LET pre == LinkChecks(c.object, c.hashes, FilesView(p, LinkDb(c)))
       IN \E fail \in IF ReachesQuery(c.object, c.hashes) THEN FaultChoices ELSE {FALSE} :
            /\ Fault(fail)
            /\ Go(p, c, IF fail THEN Return(c, << >>, errDB) ELSE AfterLinkChecks(c, pre))

StartLink(p) ==
    /\ Startable(p)
    /\ \E db \in Handles, object \in Objects, files \in HashLists :
          Link(p, LedgerCall("Link", db, object, files))

LinkOnly(p, c) ==
    /\ Begin
    /\ UNCHANGED <<Machines, clock, disk, remote>>
    /\ IF c.object = ""
       THEN Go(p, c, Return(c, << >>, errEmptyObject)) /\ Db(p, Store(TxnAtStart(c))) /\ Fault(FALSE)
       ELSE IF emptyFiles(c.hashes)
       THEN unlink(p, c, c.db, TxnAtStart(c), c.object, NoCond)
       ELSE \E beginFails \in IF runInTxBegins(c) THEN FaultChoices ELSE {FALSE} :
            IF beginFails
            THEN Go(p, c, BeginFailed(c)) /\ Db(p, Store(NoTxn)) /\ Fault(TRUE)
            ELSE LET pre == LinkChecks(c.object, c.hashes, FilesView(p, LinkDb(c)))
                 IN /\ Db(p, Store(TxnAtStart(c)))
                    /\ \E fail \in IF ReachesQuery(c.object, c.hashes) THEN FaultChoices ELSE {FALSE} :
                         /\ Fault(fail)
                         /\ Go(p, c, IF fail THEN Return(c, << >>, errDB) ELSE AfterLinkChecks(c, pre))

StartLinkOnly(p) ==
    /\ Startable(p)
    /\ \E db \in Handles, object \in Objects, files \in HashLists :
          LinkOnly(p, LedgerCall("LinkOnly", db, object, files))

\* LinkOnly's DELETE of the links that are not in files.
LinkOnlyUnlink(p) ==
    /\ pc[p] = "unlink"
    /\ UNCHANGED <<Machines, clock, disk, remote, calls>>
    /\ unlink(p, call[p], LinkOnlyDb(call[p]), txn[p], call[p].object, filesCond(call[p].hashes, "NOT"))

UnlinkAllOf(p, c) ==
    /\ Begin
    /\ UNCHANGED <<Machines, clock, disk, remote>>
    /\ IF c.object = ""
       THEN Go(p, c, Return(c, << >>, errEmptyObject)) /\ Db(p, Store(TxnAtStart(c))) /\ Fault(FALSE)
       ELSE unlink(p, c, c.db, TxnAtStart(c), c.object, NoCond)

StartUnlinkAllOf(p) ==
    /\ Startable(p)
    /\ \E db \in Handles, object \in Objects :
          UnlinkAllOf(p, LedgerCall("UnlinkAllOf", db, object, << >>))

Unlink(p, c) ==
    /\ Begin
    /\ UNCHANGED <<Machines, clock, disk, remote>>
    /\ IF c.object = "" \/ emptyFiles(c.hashes) \/ ~CheckHash(c.hashes)
       THEN /\ Go(p, c, Return(c, << >>, IF c.object = "" THEN errEmptyObject
                                      ELSE IF emptyFiles(c.hashes) THEN "nil" ELSE errInvalidHash))
            /\ Db(p, Store(TxnAtStart(c))) /\ Fault(FALSE)
       ELSE unlink(p, c, c.db, TxnAtStart(c), c.object, filesCond(c.hashes, ""))

StartUnlink(p) ==
    /\ Startable(p)
    /\ \E db \in Handles, object \in Objects, files \in HashLists :
          Unlink(p, LedgerCall("Unlink", db, object, files))

Next ==
    \E p \in Procs :
        \/ StartSave(p)
        \/ LinkCheck(p)
        \/ LinkInsert(p)
        \/ WriteStat(p)
        \/ WriteCreate(p)
        \/ WriteCopy(p)
        \/ WriteTemp(p)
        \/ Scp(p)
        \/ EndTx(p)
        \/ CallerCommit(p)
        \/ CallerRollback(p)
        \/ StartLink(p)
        \/ StartLinkOnly(p)
        \/ LinkOnlyUnlink(p)
        \/ StartUnlinkAllOf(p)
        \/ StartUnlink(p)

Spec == Init /\ [][Next]_vars

\* Callers that only upload.
NextSave ==
    \E p \in Procs :
        \/ StartSave(p)
        \/ LinkCheck(p)
        \/ LinkInsert(p)
        \/ WriteStat(p)
        \/ WriteCreate(p)
        \/ WriteCopy(p)
        \/ WriteTemp(p)
        \/ Scp(p)
        \/ EndTx(p)
        \/ CallerCommit(p)
        \/ CallerRollback(p)

SpecSave == Init /\ [][NextSave]_vars

(***************************************************************************)
(* The ledger's queries: Linked, EnsureLinked, CheckFile, FilesOf.  Each   *)
(* is one SELECT; what it returns is kept in ret.hashes.                    *)
(***************************************************************************)
errNotLinked == "the file is not linked to the object"

\* The rows of a query answered in an order the statement allows: ORDER BY
\* created_at leaves the order of rows with equal created_at to the database.
OrderedByCreatedAt(rows) ==
    {s \in [1..Cardinality(rows) -> rows] :
        /\ \A i, j \in 1..Cardinality(rows) : i # j => s[i] # s[j]
        /\ \A i, j \in 1..Cardinality(rows) : i < j => s[i].created_at <= s[j].created_at}

\* A call that is one query: it returns the error pre found before the
\* query, the error of the query, the error post made of its rows, or the rows.
Query(p, c, pre, rows, post) ==
    /\ Begin
    /\ UNCHANGED <<Machines, clock, disk, remote>>
    /\ Db(p, Store(TxnAtStart(c)))
    /\ IF pre # "nil"
       THEN Fault(FALSE) /\ Go(p, c, Return(c, << >>, pre))
       ELSE \E fail \in FaultChoices :
            /\ Fault(fail)
            /\ Go(p, c, IF fail THEN Return(c, << >>, errDB) ELSE IF post # "nil" THEN Return(c, << >>, post)
                        ELSE Return(c, rows, "nil"))

LinkedRows(view, object, file) == {r \in Range(view) : r.object = object /\ r.file = file}

Linked(p, c) ==
    LET file == c.hashes[1]
        found == LinkedRows(LinksView(p, c.db), c.object, file) # {}
    IN Query(p, c, IF CheckHash(<<file>>) THEN "nil" ELSE errInvalidHash,
             IF found THEN <<file>> ELSE << >>, "nil")

StartLinked(p) ==
    /\ Startable(p)
    /\ \E db \in Handles, object \in Objects, file \in HashTokens :
          Linked(p, LedgerCall("Linked", db, object, <<file>>))

EnsureLinked(p, c) ==
    LET file == c.hashes[1]
        found == LinkedRows(LinksView(p, c.db), c.object, file) # {}
    IN Query(p, c, IF CheckHash(<<file>>) THEN "nil" ELSE errInvalidHash,
             << >>, IF found THEN "nil" ELSE errNotLinked)

StartEnsureLinked(p) ==
    /\ Startable(p)
    /\ \E db \in Handles, object \in Objects, file \in HashTokens :
          EnsureLinked(p, LedgerCall("EnsureLinked", db, object, <<file>>))

\* CheckFile called on its own: it puts the hashes into its query as they
\* are; a query with an empty VALUES list is a syntax error.
CheckFileCall(p, c) ==
    Query(p, c, IF Len(c.hashes) = 0 THEN errDB ELSE "nil", << >>,
          CheckFile(FilesView(p, c.db), c.hashes))

StartCheckFile(p) ==
    /\ Startable(p)
    /\ \E db \in Handles, files \in HashLists :
          CheckFileCall(p, LedgerCall("CheckFile", db, "", files))

FilesOf(p, c) ==
    \E s \in OrderedByCreatedAt({r \in Range(LinksView(p, c.db)) : r.object = c.object}) :
        Query(p, c, "nil", [i \in 1..Len(s) |-> s[i].file], "nil")

StartFilesOf(p) ==
    /\ Startable(p)
    /\ \E db \in Handles, object \in Objects :
          FilesOf(p, LedgerCall("FilesOf", db, object, << >>))

(***************************************************************************)
(* The ledger on its own: the calls of the link ledger on a ledger that    *)
(* earlier uploads and links have filled.  The FileRecords are those of    *)
(* uploads that completed (their files are stored on every machine); the   *)
(* LinkRecords were made by one Link call each, in the order of the list.  *)
(***************************************************************************)
HashList == [i \in 1..MaxContent |-> HashOf(Bytes(i))]

\* Links that may be there: every hash to one object, the first hash to another.
SeedPairs == {<<h, "a|1">> : h \in ContentHashes} \cup {<<HashList[1], "b|2">>}

\* The pairs of S as link rows, one tick of the clock apart.
RECURSIVE SeedRows(_, _)
SeedRows(S, t) ==
    IF S = {} THEN << >>
    ELSE LET pair == CHOOSE x \in S : TRUE
         IN <<LinkRow(pair[1], pair[2], t)>> \o SeedRows(S \ {pair}, t + 1)

SeedLedgers ==
    {[files |-> [i \in 1..n |-> FileRow(HashList[i])], links |-> SeedRows(S, 1)] :
        n \in 1..MaxContent, S \in SUBSET SeedPairs}

InitLedger ==
    /\ Machines = <<RemoteList[1], 0>> \o Tail(RemoteList)
    /\ \E seed \in {s \in SeedLedgers :
                      \A i \in 1..Len(s.links) : \E j \in 1..Len(s.files) : s.files[j].hash = s.links[i].file} :
          /\ filesTbl = seed.files
          /\ linksTbl = seed.links
          /\ clock = Len(seed.links) + 1
          /\ disk = [path \in Paths |->
                       IF \E j \in 1..Len(seed.files) : FilePath(seed.files[j].hash) = path
                       THEN Bytes(CHOOSE c \in Contents : FilePath(HashOf(Bytes(c))) = path) ELSE Absent]
          /\ remote = [m \in 1..NumRemotes |-> disk]
    /\ txn = [p \in Procs |-> NoTxn]
    /\ pc = [p \in Procs |-> "idle"]
    /\ call = [p \in Procs |-> NoCall]
    /\ idx = [p \in Procs |-> 0]
    /\ mi = [p \in Procs |-> 0]
    /\ ret = [p \in Procs |-> NoRet]
    /\ last = NoLast
    /\ calls = 0
    /\ faults = 0

NextLedger ==
    \E p \in Procs :
        \/ StartLink(p)
        \/ LinkInsert(p)
        \/ StartLinkOnly(p)
        \/ LinkOnlyUnlink(p)
        \/ EndTx(p)
        \/ CallerCommit(p)
        \/ CallerRollback(p)
        \/ StartUnlinkAllOf(p)
        \/ StartUnlink(p)
        \/ StartLinked(p)
        \/ StartEnsureLinked(p)
        \/ StartCheckFile(p)
        \/ StartFilesOf(p)

SpecLedger == InitLedger /\ [][NextLedger]_vars

(***************************************************************************)
(* Properties.                                                             *)
(***************************************************************************)
ContentOf(h) == CHOOSE c \in Contents : HashOf(Bytes(c)) = h

\* The bytes of hash h are complete at h's path, on the local store (when
\* this host is one of the machines) and on every other machine.
StoredLocally(h) == localMachine => disk[FilePath(h)] = Bytes(ContentOf(h))

StoredRemotely(h) ==
    \A i \in 1..Len(otherMachines) : remote[otherMachines[i]][FilePath(h)] = Bytes(ContentOf(h))

Stored(h) == StoredLocally(h) /\ StoredRemotely(h)

CountKey(rows, key) == Cardinality({i \in 1..Len(rows) : KeyOf(rows[i]) = key})

NoDuplicates(rows) == \A i, j \in 1..Len(rows) : KeyOf(rows[i]) = KeyOf(rows[j]) => i = j

\* The ledger as the caller of the call that has just returned sees it.
LastFiles == IF last.call.db = "tx" THEN FilesView(last.proc, "tx") ELSE filesTbl

LastLinks == IF last.call.db = "tx" THEN LinksView(last.proc, "tx") ELSE linksTbl

SaveReturned == last.call.op = "Save" /\ Len(last.call.files) > 0

LastHashes == [i \in 1..Len(last.call.files) |-> HashOf(Bytes(last.call.files[i]))]

\* C1 (as claimed): a LinkRecord that other callers can see is for a hash
\* whose bytes are completely present in the store.
CE_C1 == \A i \in 1..Len(linksTbl) : Stored(linksTbl[i].file)

\* C2: when no failure is injected, a Save of accepted files with a non-empty
\* object returns without error, however it interleaves with other Saves,
\* and its caller then sees exactly one FileRecord per hash and exactly one
\* LinkRecord per (hash, object); the committed tables never hold two rows
\* with one key.
Thm_C2 ==
    /\ NoDuplicates(filesTbl) /\ NoDuplicates(linksTbl)
    /\ (/\ SaveReturned
        /\ last.call.object # ""
        /\ createFileRecords(last.call.files, last.call.check).err = "nil"
        /\ faults = 0)
       => /\ last.ret.err = "nil"
          /\ \A i \in 1..Len(LastHashes) :
                /\ CountKey(LastFiles, <<LastHashes[i]>>) = 1
                /\ CountKey(LastLinks, <<LastHashes[i], last.call.object>>) = 1

\* A Save has returned without error while another Save of the same files to
\* the same object is still running.
Wit_C2 ==
    /\ SaveReturned /\ last.call.object # "" /\ last.ret.err = "nil" /\ faults = 0
    /\ \E q \in Procs \ {last.proc} :
          /\ call[q].op = "Save" /\ call[q].files = last.call.files
          /\ call[q].object = last.call.object
          /\ pc[q] \in {"link_chk", "link_ins", "stat", "create", "copy", "temp", "scp", "end"}

\* C3 (as claimed): whenever writeFile has returned success, the file at the
\* destination path holds the bytes that were to be written.
CE_C3 == \A p \in Procs : (pc[p] = "scp" /\ localMachine) => disk[destPath(p)] = fileBytes(p)

HasFile(rows, h) == \E i \in 1..Len(rows) : rows[i].hash = h

HasLink(rows, h, object) == \E i \in 1..Len(rows) : rows[i].file = h /\ rows[i].object = object

\* C4: every LinkRecord's hash has a FileRecord, in the committed tables and
\* in what every open transaction sees.
Thm_C4 ==
    /\ \A i \in 1..Len(linksTbl) : HasFile(filesTbl, linksTbl[i].file)
    /\ \A p \in Procs : txn[p].active =>
          \A i \in 1..Len(LinksView(p, "tx")) : HasFile(FilesView(p, "tx"), LinksView(p, "tx")[i].file)

\* A Link call has returned success and its LinkRecord is in the ledger.
Wit_C4 ==
    /\ last.call.op = "Link" /\ last.ret.err = "nil" /\ ~emptyFiles(last.call.hashes)
    /\ \A i \in 1..Len(last.call.hashes) : HasLink(LastLinks, last.call.hashes[i], last.call.object)

\* The ledger rows are what they were: committed and staged.
LedgerUnchanged == filesTbl' = filesTbl /\ linksTbl' = linksTbl /\
                   \A p \in Procs : /\ txn'[p].files = txn[p].files
                                    /\ txn'[p].links = txn[p].links
                                    /\ txn'[p].dels = txn[p].dels

\* A Link call returns in this step, having been given a well-formed hash
\* that has no FileRecord, and no database failure is injected in the step.
LinkOfMissingReturns ==
    /\ last'.call.op = "Link"
    /\ faults' = faults
    /\ \E i \in 1..Len(last'.call.hashes) :
          /\ CheckHash(<<last'.call.hashes[i]>>)
          /\ ~HasFile(FilesView(last'.proc, last'.call.db), last'.call.hashes[i])

\* C5 (as claimed): Link given a well-formed hash without FileRecord returns
\* the file-not-exists error and leaves the ledger unchanged.
CE_C5 ==
    [][LinkOfMissingReturns => (last'.ret.err = errFileNotExists /\ LedgerUnchanged)]_vars

\* C5 (amended): Link given a non-empty object and well-formed hashes only,
\* one of them without FileRecord, returns the file-not-exists error and
\* leaves the ledger unchanged, unless its query fails.
Thm_C5 ==
    [][(LinkOfMissingReturns /\ last'.call.object # "" /\ CheckHash(last'.call.hashes))
         => (last'.ret.err = errFileNotExists /\ LedgerUnchanged)]_vars

\* Link has returned file-not-exists for two hashes, one with a FileRecord
\* and one without.
Wit_C5 ==
    /\ last.call.op = "Link" /\ last.ret.err = errFileNotExists
    /\ \E i, j \in 1..Len(last.call.hashes) :
          /\ HasFile(LastFiles, last.call.hashes[i])
          /\ ~HasFile(LastFiles, last.call.hashes[j])
    /\ ~HasLink(LastLinks, last.call.hashes[1], last.call.object)
    /\ ~HasLink(LastLinks, last.call.hashes[Len(last.call.hashes)], last.call.object)

\* C6 (as claimed): LinkOnly given a raw connection or no handle runs its Link
\* step inside a transaction, so the step changes nothing that other callers
\* of the ledger can see.
CE_C6 ==
    [][\A p \in Procs :
          (/\ call[p].op = "LinkOnly" /\ call[p].db \in {"nil", "raw"}
           /\ pc[p] = "link_ins" /\ pc'[p] # "link_ins")
          => linksTbl' = linksTbl]_vars

LedgerErrors == {errNotImage, errTooLarge, errDB, errFileNotExists, errInvalidHash, errEmptyObject}

\* C7 (as claimed): a Save without a caller's transaction that returns an
\* error of the check, the FileRecord insert or Link leaves no row of its own
\* in the ledger; stated of the first call, before which the ledger is empty.
CE_C7 ==
    (/\ SaveReturned /\ last.call.db \in {"nil", "raw"}
     /\ last.ret.err \in LedgerErrors /\ calls = 1)
    => (filesTbl = << >> /\ linksTbl = << >>)

LastRecordsIn(files, links) ==
    \A i \in 1..Len(LastHashes) :
        /\ HasFile(files, LastHashes[i])
        /\ last.call.object # "" => HasLink(links, LastHashes[i], last.call.object)

\* C8 (as claimed): a Save whose copy to a remote machine failed returns the
\* copy error and its FileRecords and LinkRecords stay in the ledger.
CE_C8 == (SaveReturned /\ last.ret.err = errScp) => LastRecordsIn(LastFiles, LastLinks)

\* C8 (amended): a Save whose copy to a remote machine failed returns the
\* copy error; its records stay committed when it was given no handle, stay
\* staged in the caller's transaction when it was given one, and are rolled
\* back with the transaction runInTx began when it was given a raw connection.
Thm_C8 ==
    (SaveReturned /\ last.ret.err = errScp) =>
        /\ last.call.db = "nil" => LastRecordsIn(filesTbl, linksTbl)
        /\ last.call.db = "tx" => txn[last.proc].active /\ LastRecordsIn(LastFiles, LastLinks)
        /\ last.call.db = "raw" =>
              /\ txn[last.proc] = NoTxn
              /\ calls = 1 => (filesTbl = << >> /\ linksTbl = << >>)

\* The first call, a Save to an object on a raw connection, has returned the
\* copy error.
Wit_C8 ==
    /\ SaveReturned /\ last.ret.err = errScp /\ last.call.db = "raw"
    /\ last.call.object # "" /\ calls = 1

\* C9 (as claimed): a Save that repeats a Save failed in its write or its
\* replication, and succeeds, leaves one FileRecord per hash, one LinkRecord
\* per (hash, object), and the complete bytes on the local store and on
\* every remote machine.
CE_C9 ==
    (SaveReturned /\ last.call.retry /\ last.ret.err = "nil") =>
        \A i \in 1..Len(LastHashes) :
            /\ CountKey(LastFiles, <<LastHashes[i]>>) = 1
            /\ last.call.object # "" => CountKey(LastLinks, <<LastHashes[i], last.call.object>>) = 1
            /\ Stored(LastHashes[i])

\* While a file is copied to the k-th other machine, it is on all machines
\* before it; and a machine has a file only if every machine before it in the
\* list has it.
ReplicationOrder ==
    /\ \A p \in Procs : pc[p] = "scp" =>
          \A j \in 1..(mi[p] - 1) : remote[otherMachines[j]][destPath(p)] # Absent
    /\ \A path \in Paths : \A j \in 2..Len(otherMachines) :
          remote[otherMachines[j]][path] # Absent => remote[otherMachines[j - 1]][path] # Absent

\* One step of the replication loop: either the copy to the current machine
\* succeeds, changing that machine alone, and the loop goes on to the next
\* machine; or it fails, changing no machine, and the error is returned.
ScpStep(p) ==
    LET addr == otherMachines[mi[p]]
    IN \/ /\ remote' = [remote EXCEPT ![addr][destPath(p)] = srcData(p)]
          /\ faults' = faults
          /\ IF mi[p] < Len(otherMachines)
             THEN pc'[p] = "scp" /\ idx'[p] = idx[p] /\ mi'[p] = mi[p] + 1
             ELSE pc'[p] # "scp" \/ idx'[p] = idx[p] + 1
       \/ /\ remote' = remote
          /\ faults' = faults + 1
          /\ pc'[p] \in {"end", "idle", "caller"}
          /\ IF pc'[p] = "end" THEN ret'[p].err = errScp
             ELSE last'.proc = p /\ last'.ret.err = errScp

\* C10: replication visits the other machines in list order, one at a time;
\* the first failing copy returns the error, and no machine loses a file.
Thm_C10 ==
    /\ []ReplicationOrder
    /\ [][\A p \in Procs :
            (pc[p] = "scp" /\ <<pc[p], idx[p], mi[p]>> # <<pc'[p], idx'[p], mi'[p]>>) => ScpStep(p)]_vars
    /\ [][\A m \in 1..NumRemotes : \A path \in Paths :
            remote[m][path] # Absent => remote'[m][path] # Absent]_vars

\* A Save has returned the copy error with its file on the first of the
\* other machines and not on the second.
Wit_C10 ==
    /\ SaveReturned /\ last.ret.err = errScp
    /\ remote[otherMachines[1]][FilePath(LastHashes[1])] = Bytes(last.call.files[1])
    /\ remote[otherMachines[2]][FilePath(LastHashes[1])] = Absent

\* A ledger call other than Save has returned.
LedgerReturned(op) == last.call.op = op

\* The call that has just returned named only well-formed hashes that have
\* a FileRecord, and a non-empty object.
LastLinkable ==
    /\ last.call.object # "" /\ ~emptyFiles(last.call.hashes) /\ CheckHash(last.call.hashes)
    /\ \A i \in 1..Len(last.call.hashes) : HasFile(LastFiles, last.call.hashes[i])

\* C11: the ledger never holds two rows for one (file, object) pair, in the
\* committed table or in what an open transaction sees; and a Link of
\* hashes that have FileRecords, with no failure injected, returns success
\* with exactly one LinkRecord per pair, whether or not the pair was linked
\* before and whatever other callers do meanwhile.
Thm_C11 ==
    /\ NoDuplicates(linksTbl)
    /\ \A p \in Procs : txn[p].active => NoDuplicates(LinksView(p, "tx"))
    /\ (LedgerReturned("Link") /\ LastLinkable /\ faults = 0) =>
          /\ last.ret.err = "nil"
          /\ \A i \in 1..Len(last.call.hashes) :
                CountKey(LastLinks, <<last.call.hashes[i], last.call.object>>) = 1

\* A Link of a pair that was linked before the call has returned success
\* while another caller's Link of the same pair is at its INSERT.
Wit_C11 ==
    /\ LedgerReturned("Link") /\ LastLinkable /\ last.ret.err = "nil"
    /\ \E i \in 1..Len(LastLinks) :
          /\ LastLinks[i].file = last.call.hashes[1] /\ LastLinks[i].object = last.call.object
          /\ LastLinks[i].created_at < clock - 1
    /\ \E q \in Procs \ {last.proc} :
          /\ call[q].op = "Link" /\ pc[q] = "link_ins"
          /\ call[q].object = last.call.object /\ call[q].hashes = last.call.hashes

\* The hashes linked to object in a view of the links table.
LinkedTo(view, object) == {r.file : r \in {x \in Range(view) : x.object = object}}

RowsNotOf(rows, object) == SelectSeq(rows, LAMBDA r : r.object # object)

\* The step is one by caller p in a call of op, and TheCall is that call.
ActsIn(p, op) ==
    /\ pc'[p] # pc[p] \/ last'.proc = p
    /\ call[p].op = op \/ call'[p].op = op \/ (last'.proc = p /\ last'.call.op = op)

TheCall(p, op) ==
    IF call[p].op = op THEN call[p] ELSE IF call'[p].op = op THEN call'[p] ELSE last'.call

\* The step leaves every FileRecord and every LinkRecord of the objects
\* other than object as it was, committed or staged.
OtherObjectsUnchanged(object) ==
    /\ filesTbl' = filesTbl
    /\ RowsNotOf(linksTbl', object) = RowsNotOf(linksTbl, object)
    /\ \A q \in Procs :
          /\ txn'[q].files = txn[q].files
          /\ RowsNotOf(txn'[q].links, object) = RowsNotOf(txn[q].links, object)
          /\ {r \in txn'[q].dels : r.object # object} = {r \in txn[q].dels : r.object # object}

\* A LinkOnly that ran with no other call beside it has returned success:
\* the hashes linked to its object are the given ones, or none for empty
\* hashes.
LinkOnlyAlone ==
    (LedgerReturned("LinkOnly") /\ last.ret.err = "nil" /\ calls = 1) =>
        LinkedTo(LastLinks, last.call.object) =
            IF emptyFiles(last.call.hashes) THEN {} ELSE Range(last.call.hashes)

\* C12: a successful LinkOnly leaves exactly the given hashes linked to its
\* object (none for empty hashes); whatever runs beside it, no step of a
\* LinkOnly changes a link of another object or a FileRecord, and its DELETE
\* leaves no hash linked to the object that is not among the given ones.
Thm_C12 ==
    /\ []LinkOnlyAlone
    /\ [][\A p \in Procs :
            ActsIn(p, "LinkOnly") => OtherObjectsUnchanged(TheCall(p, "LinkOnly").object)]_vars
    /\ [][\A p \in Procs :
            (pc[p] = "unlink" /\ pc'[p] # "unlink" /\ faults' = faults) =>
                (LinkedTo(LinksView(p, call[p].db), call[p].object))' \subseteq Range(call[p].hashes)]_vars

\* A LinkOnly of one hash has returned success, having inserted its link and
\* removed another link of the object, while a link of another object is
\* still there.
Wit_C12 ==
    /\ LedgerReturned("LinkOnly") /\ last.ret.err = "nil" /\ calls = 1
    /\ Len(last.call.hashes) = 1 /\ ~emptyFiles(last.call.hashes)
    /\ \E i \in 1..Len(LastLinks) :
          /\ LastLinks[i].file = last.call.hashes[1] /\ LastLinks[i].object = last.call.object
          /\ LastLinks[i].created_at = clock - 1
    /\ Len(LastLinks) < clock - 1
    /\ \E i \in 1..Len(LastLinks) : LastLinks[i].object # last.call.object

\* The rows of a view without the (file, object) pairs that a call names.
WithoutPairs(view, object, files) ==
    SelectSeq(view, LAMBDA r : ~(r.object = object /\ r.file \in Range(files)))

\* The step changes no row of a caller other than p, committed rows aside.
OthersStagedUnchanged(p) == \A q \in Procs \ {p} : txn'[q] = txn[q]

\* C13: Unlink with an empty object returns the empty-object error and with
\* empty hashes returns success, both leaving the ledger as it was; Unlink of
\* well-formed hashes, when its DELETE does not fail, returns success and
\* leaves in the ledger exactly the rows that were there without the named
\* pairs: every other LinkRecord and every FileRecord is unchanged, and
\* naming a pair that is absent changes nothing.
Thm_C13 ==
    [][\A p \in Procs : ActsIn(p, "Unlink") =>
          LET object == last'.call.object
              files == last'.call.hashes
          IN \A db \in {h \in Handles : h = last'.call.db} :
             /\ last'.proc = p
             /\ object = "" => (last'.ret.err = errEmptyObject /\ LedgerUnchanged)
             /\ (object # "" /\ emptyFiles(files)) => (last'.ret.err = "nil" /\ LedgerUnchanged)
             /\ (object # "" /\ ~emptyFiles(files) /\ CheckHash(files) /\ faults' = faults) =>
                   /\ last'.ret.err = "nil"
                   /\ (LinksView(p, db))' = WithoutPairs(LinksView(p, db), object, files)
                   /\ (FilesView(p, db))' = FilesView(p, db)
                   /\ filesTbl' = filesTbl
                   /\ OthersStagedUnchanged(p)
                   /\ ~InTx(db) => txn'[p].links = txn[p].links /\ txn'[p].dels = txn[p].dels
                   /\ InTx(db) => linksTbl' = linksTbl
                   /\ LinkedTo(LinksView(p, db), object) \cap Range(files) = {} => LedgerUnchanged]_vars

\* An Unlink of one hash has returned success, having removed its pair,
\* while another hash of the same object and a link of another object are
\* still there.
Wit_C13 ==
    /\ LedgerReturned("Unlink") /\ last.ret.err = "nil" /\ calls = 1
    /\ Len(last.call.hashes) = 1 /\ ~emptyFiles(last.call.hashes)
    /\ Len(LastLinks) < clock - 1
    /\ \E i \in 1..Len(LastLinks) :
          LastLinks[i].object = last.call.object /\ LastLinks[i].file # last.call.hashes[1]
    /\ \E i \in 1..Len(LastLinks) : LastLinks[i].object # last.call.object

\* The Save is given the image check and a file that is not an image.
HasRejectedFile(c) ==
    /\ c.op = "Save" /\ c.check = "image"
    /\ \E i \in 1..Len(c.files) : DetectContentType(Bytes(c.files[i]))[1] # "image"

NothingStored ==
    /\ filesTbl = << >> /\ linksTbl = << >>
    /\ \A p \in Procs : txn[p].files = << >> /\ txn[p].links = << >>
    /\ \A path \in Paths : disk[path] = Absent /\ \A m \in 1..NumRemotes : remote[m][path] = Absent

\* A Save with a rejected file has returned: the error is the check's (or
\* that of a transaction that could not be begun), and no hash is returned;
\* when it was the first call, ledger and stores are empty.
RejectedSaveReturns ==
    (SaveReturned /\ HasRejectedFile(last.call)) =>
        /\ last.ret.err \in {errNotImage, errDB}
        /\ last.call.db # "raw" => last.ret.err = errNotImage
        /\ last.ret.hashes = << >>
        /\ calls = 1 => NothingStored

\* C14: a Save whose check rejects a file returns the check's error, and no
\* step of that Save changes a FileRecord, a LinkRecord, the local store or
\* a remote machine, also for the files before the rejected one.
Thm_C14 ==
    /\ []RejectedSaveReturns
    /\ [][\A p \in Procs :
            (ActsIn(p, "Save") /\ HasRejectedFile(TheCall(p, "Save"))) =>
                (LedgerUnchanged /\ disk' = disk /\ remote' = remote)]_vars

\* A Save to an object of an image followed by a file that is not an image
\* has returned the check's error.
Wit_C14 ==
    /\ SaveReturned /\ HasRejectedFile(last.call) /\ last.ret.err = errNotImage
    /\ last.call.object # "" /\ Len(last.call.files) = 2
    /\ DetectContentType(Bytes(last.call.files[1]))[1] = "image"

(***************************************************************************)
(* Uploads and FilesOf.                                                    *)
(***************************************************************************)
NextFiles ==
    \E p \in Procs :
        \/ StartSave(p)
        \/ LinkCheck(p)
        \/ LinkInsert(p)
        \/ WriteStat(p)
        \/ WriteCreate(p)
        \/ WriteCopy(p)
        \/ WriteTemp(p)
        \/ Scp(p)
        \/ EndTx(p)
        \/ CallerCommit(p)
        \/ CallerRollback(p)
        \/ StartFilesOf(p)

SpecFiles == Init /\ [][NextFiles]_vars

\* C15 (as claimed): after one Save of two or more distinct files to an
\* object, the first call of all and committed when it returns, FilesOf of
\* that object returns the hashes in the order of the files of the Save.
CE_C15 ==
    [][(/\ SaveReturned /\ last.ret.err = "nil" /\ calls = 1
        /\ last.call.db \in {"nil", "raw"} /\ last.call.object # ""
        /\ Cardinality(Range(last.call.files)) = Len(last.call.files) /\ Len(last.call.files) >= 2
        /\ last'.call.op = "FilesOf" /\ last'.call.object = last.call.object
        /\ last'.ret.err = "nil")
       => last'.ret.hashes = last.ret.hashes]_vars

HashOps == {"Link", "LinkOnly", "Unlink", "Linked", "EnsureLinked", "CheckFile"}

\* C16 (as claimed): a ledger call that is given a malformed hash returns the
\* invalid-hash error; stated of calls that do not return before they look
\* at their hashes (a non-empty object for Link, LinkOnly and Unlink, and
\* hashes that are not the empty list or the one empty string), with no
\* failure injected.
CE_C16 ==
    (/\ last.call.op \in HashOps
     /\ last.call.op \in {"Link", "LinkOnly", "Unlink"} => last.call.object # ""
     /\ ~emptyFiles(last.call.hashes) /\ ~CheckHash(last.call.hashes)
     /\ faults = 0)
    => last.ret.err = errInvalidHash

\* No hashes, or the one empty string.
NoHashes(files) == files = << >> \/ files = <<EmptyString>>

\* C17 (as claimed): Link with empty hashes, or with the one empty string,
\* returns success, whatever the object.
CE_C17 == (LedgerReturned("Link") /\ NoHashes(last.call.hashes)) => last.ret.err = "nil"

\* C17 (amended): Link with empty hashes, or with the one empty string,
\* changes nothing in the ledger; it returns success for a non-empty object
\* and the empty-object error for the empty object.
Thm_C17 ==
    [][\A p \in Procs : (ActsIn(p, "Link") /\ NoHashes(TheCall(p, "Link").hashes)) =>
          /\ last'.proc = p /\ last'.call.op = "Link"
          /\ last'.ret.err = IF last'.call.object = "" THEN errEmptyObject ELSE "nil"
          /\ LedgerUnchanged
          /\ clock' = clock]_vars

\* Link of the one empty string to an object that has links has returned
\* success.
Wit_C17 ==
    /\ LedgerReturned("Link") /\ last.call.hashes = <<EmptyString>> /\ last.ret.err = "nil"
    /\ LinkedTo(LastLinks, last.call.object) # {}

(***************************************************************************)
(* LinkObject: String, MarshalJSON and UnmarshalJSON.  A string is a       *)
(* sequence of characters; a LinkObject is [Table, ID, Field].             *)
(***************************************************************************)
MaxTableLen == 2    \* characters of a Table drawn as input
MaxFieldLen == 1    \* characters of a Field drawn as input
MaxBytesLen == 4    \* bytes of an input to UnmarshalJSON

errInvalidObject == "invalid LinkObject"
errJSON == "json: syntax error"

Digits == <<"0", "1", "2", "3", "4", "5", "6", "7", "8", "9">>
Letters == {"a"}
Quote == "\""

\* \d, \w and [\w.] of objectRegexp
IsDigit(ch) == ch \in Range(Digits)
IsWord(ch) == IsDigit(ch) \/ ch \in Letters \/ ch = "_"
IsWordOrDot(ch) == IsWord(ch) \/ ch = "."

ZeroObject == [Table |-> << >>, ID |-> 0, Field |-> << >>]

\* strconv.FormatInt(n, 10)
RECURSIVE FormatNat(_)
FormatNat(n) == IF n < 10 THEN <<Digits[n + 1]>> ELSE FormatNat(n \div 10) \o <<Digits[(n % 10) + 1]>>

FormatInt(n) == IF n < 0 THEN <<"-">> \o FormatNat(-n) ELSE FormatNat(n)

\* strconv.ParseInt(s, 10, 64) of a string of digits; the strings of the
\* model are far shorter than the 19 digits at which it overflows.
RECURSIVE ParseInt(_)
ParseInt(s) ==
    IF s = << >> THEN 0
    ELSE 10 * ParseInt(SubSeq(s, 1, Len(s) - 1)) + (CHOOSE d \in 0..9 : Digits[d + 1] = s[Len(s)])

\* String that leaves the Field out.
LinkObjectStringWithoutField(o) ==
    IF o = ZeroObject THEN << >> ELSE o.Table \o <<"|">> \o FormatInt(o.ID)

LinkObjectString(o) ==
    IF o.Table = << >> /\ o.ID = 0 /\ o.Field = << >> THEN << >>
    ELSE LET s == o.Table \o <<"|">> \o FormatInt(o.ID)
         IN IF o.Field # << >> THEN s \o <<"|">> \o o.Field ELSE s

\* json.Marshal of a string that needs no escape, and json.Unmarshal into a
\* string of bytes that begin with a quote.
JSONMarshal(s) == <<Quote>> \o s \o <<Quote>>

JSONUnmarshal(b) ==
    IF Len(b) >= 2 /\ b[Len(b)] = Quote /\ \A i \in 2..(Len(b) - 1) : b[i] # Quote
    THEN [err |-> "nil", s |-> SubSeq(b, 2, Len(b) - 1)]
    ELSE [err |-> errJSON, s |-> << >>]

LinkObjectMarshalJSON(o) == JSONMarshal(LinkObjectString(o))

\* objectRegexp.FindStringSubmatch(s): no match, or the submatches 1, 2, 4.
FindStringSubmatch(s) ==
    LET bars == {i \in 1..Len(s) : s[i] = "|"}
        i1 == CHOOSE i \in bars : \A j \in bars : i <= j
        i2 == IF Cardinality(bars) = 2 THEN CHOOSE i \in bars : i # i1 ELSE Len(s) + 1
        table == SubSeq(s, 1, i1 - 1)
        digits == SubSeq(s, i1 + 1, i2 - 1)
        field == SubSeq(s, i2 + 1, Len(s))
    IN IF /\ Cardinality(bars) \in {1, 2}
          /\ table # << >> /\ \A i \in 1..Len(table) : IsWordOrDot(table[i])
          /\ digits # << >> /\ \A i \in 1..Len(digits) : IsDigit(digits[i])
          /\ Cardinality(bars) = 2 => (field # << >> /\ \A i \in 1..Len(field) : IsWord(field[i]))
       THEN [matched |-> TRUE, table |-> table, digits |-> digits, field |-> field]
       ELSE [matched |-> FALSE, table |-> << >>, digits |-> << >>, field |-> << >>]

\* UnmarshalJSON into receiver o: the error and the receiver afterwards.
LinkObjectUnmarshalJSON(o, b) ==
    IF Len(b) = 0 THEN [err |-> errInvalidObject, o |-> o]
    ELSE LET js == IF b[1] = Quote THEN JSONUnmarshal(b) ELSE [err |-> "nil", s |-> b]
             m == FindStringSubmatch(js.s)
         IN IF js.err # "nil" THEN [err |-> js.err, o |-> o]
            ELSE IF js.s = << >> THEN [err |-> "nil", o |-> o]
            ELSE IF ~m.matched THEN [err |-> errInvalidObject, o |-> o]
            ELSE [err |-> "nil", o |-> [Table |-> m.table, ID |-> ParseInt(m.digits), Field |-> m.field]]

\* The inputs: LinkObjects, valid and not, and byte strings.
TableStrings == SeqsUpTo({"a", "."}, MaxTableLen)
FieldStrings == SeqsUpTo({"a", "1"}, MaxFieldLen)
ObjectIDs == {-1, 0, 1, 10, 205}
LinkObjects == [Table : TableStrings, ID : ObjectIDs, Field : FieldStrings]
ByteStrings == SeqsUpTo({"a", ".", "0", "1", "|", Quote}, MaxBytesLen)

\* A call on a LinkObject: o is the receiver, b the bytes given to
\* UnmarshalJSON, and source the object whose encoding b is, if encoded.
ObjectCall(op, o, b, encoded, source) ==
    [op |-> op, object |-> o, bytes |-> b, encoded |-> encoded, source |-> source]

InitObject ==
    /\ Machines = RemoteList
    /\ filesTbl = << >>
    /\ linksTbl = << >>
    /\ txn = [p \in Procs |-> NoTxn]
    /\ clock = 1
    /\ disk = [path \in Paths |-> Absent]
    /\ remote = [m \in 1..NumRemotes |-> [path \in Paths |-> Absent]]
    /\ pc \in {[p \in Procs |-> IF p = 1 THEN op ELSE "idle"] : op \in {"String", "MarshalJSON", "UnmarshalJSON"}}
    /\ call \in {[p \in Procs |-> IF p = 1 THEN c ELSE NoCall] :
                    c \in IF pc[1] = "UnmarshalJSON"
                          THEN {ObjectCall(pc[1], ZeroObject, b, FALSE, ZeroObject) : b \in ByteStrings}
                          ELSE {ObjectCall(pc[1], o, << >>, FALSE, ZeroObject) : o \in LinkObjects}}
    /\ idx = [p \in Procs |-> 0]
    /\ mi = [p \in Procs |-> 0]
    /\ ret = [p \in Procs |-> NoRet]
    /\ last = NoLast
    /\ calls = 0
    /\ faults = 0

\* o.String() or o.MarshalJSON() has returned b; the caller then gives b to
\* UnmarshalJSON of a new LinkObject.
Encoded(b) ==
    /\ last' = [proc |-> 1, call |-> call[1], ret |-> [err |-> "nil", bytes |-> b]]
    /\ pc' = [pc EXCEPT ![1] = "UnmarshalJSON"]
    /\ call' = [call EXCEPT ![1] = ObjectCall("UnmarshalJSON", ZeroObject, b, TRUE, call[1].object)]
    /\ UNCHANGED <<Machines, filesTbl, linksTbl, txn, clock, disk, remote, idx, mi, ret, calls, faults>>

StringCall ==
    /\ pc[1] = "String"
    /\ Encoded(LinkObjectString(call[1].object))

MarshalJSONCall ==
    /\ pc[1] = "MarshalJSON"
    /\ Encoded(LinkObjectMarshalJSON(call[1].object))

UnmarshalJSONCall ==
    /\ pc[1] = "UnmarshalJSON"
    /\ LET r == LinkObjectUnmarshalJSON(call[1].object, call[1].bytes)
       IN last' = [proc |-> 1, call |-> call[1], ret |-> [err |-> r.err, object |-> r.o]]
    /\ pc' = [pc EXCEPT ![1] = "idle"]
    /\ call' = [call EXCEPT ![1] = NoCall]
    /\ UNCHANGED <<Machines, filesTbl, linksTbl, txn, clock, disk, remote, idx, mi, ret, calls, faults>>

NextObject == StringCall \/ MarshalJSONCall \/ UnmarshalJSONCall

SpecObject == InitObject /\ [][NextObject]_vars

\* A valid ObjectRef: a Table of word characters and dots, not empty; an ID
\* that is not negative; a Field of word characters, or none.
ValidObject(o) ==
    /\ o.Table # << >> /\ \A i \in 1..Len(o.Table) : IsWordOrDot(o.Table[i])
    /\ o.ID >= 0
    /\ \A i \in 1..Len(o.Field) : IsWord(o.Field[i])

Parsed == last.call.op = "UnmarshalJSON"

\* C18 (as claimed): parsing the empty string succeeds and yields the zero
\* value.
CE_C18 == (Parsed /\ last.call.bytes = << >>) => (last.ret.err = "nil" /\ last.ret.object = ZeroObject)

\* C18 (amended): the canonical string of the zero value is empty; parsing
\* the canonical string of a valid ObjectRef, bare or as MarshalJSON writes
\* it, yields that ObjectRef; parsing the JSON string "" succeeds and leaves
\* the zero value; parsing no bytes at all, a bare string that does not
\* begin with a quote and does not match the pattern, or a JSON string that
\* is not empty and does not match it, returns the invalid-object error.
Thm_C18 ==
    /\ (last.call.op = "String" /\ last.call.object = ZeroObject) => last.ret.bytes = << >>
    /\ (Parsed /\ last.call.encoded /\ ValidObject(last.call.source)) =>
          (last.ret.err = "nil" /\ last.ret.object = last.call.source)
    /\ (Parsed /\ last.call.bytes = <<Quote, Quote>>) =>
          (last.ret.err = "nil" /\ last.ret.object = ZeroObject)
    /\ (Parsed /\ last.call.bytes = << >>) => last.ret.err = errInvalidObject
    /\ (Parsed /\ last.call.bytes # << >>) =>
          LET b == last.call.bytes
              s == IF b[1] = Quote THEN JSONUnmarshal(b).s ELSE b
          IN (/\ b[1] = Quote => JSONUnmarshal(b).err = "nil"
              /\ s # << >> /\ ~FindStringSubmatch(s).matched)
             => (last.ret.err = errInvalidObject /\ last.ret.object = ZeroObject)

\* The canonical string of a valid ObjectRef with a Field, as MarshalJSON
\* wrote it, has been parsed back.
Wit_C18 ==
    /\ Parsed /\ last.call.encoded /\ ValidObject(last.call.source)
    /\ last.call.source.Field # << >> /\ last.call.source.ID > 9
    /\ last.call.bytes[1] = Quote
    /\ last.ret.object = last.call.source


\* The calls that run their work under runInTx.
TxOps == {"Save", "LinkOnly"}

\* The step is one of a Save or LinkOnly that caller p was given its open
\* transaction for.
ActsOnCallerTx(p) == \E op \in TxOps : ActsIn(p, op) /\ TheCall(p, op).db = "tx"

\* The step ends the transaction of caller p as Commit does, or as Rollback.
EndsAsCommit(p) ==
    /\ filesTbl' = filesTbl \o txn[p].files
    /\ linksTbl' = SelectSeq(linksTbl, LAMBDA r : r \notin txn[p].dels) \o txn[p].links

EndsAsRollback == filesTbl' = filesTbl /\ linksTbl' = linksTbl

\* C19: no step of a Save or LinkOnly given the caller's open transaction
\* changes a committed row, and the transaction stays open with runInTx
\* ending nothing, whether the call returns success or an error; a Save that
\* returned has its FileRecords and LinkRecords in the transaction's view;
\* and the staged rows become committed or vanish only when the caller
\* commits or rolls back.
Thm_C19 ==
    /\ [][\A p \in Procs :
            ActsOnCallerTx(p) =>
                /\ filesTbl' = filesTbl /\ linksTbl' = linksTbl
                /\ txn'[p].active /\ pc'[p] # "end"
                /\ \A q \in Procs \ {p} : txn'[q] = txn[q]]_vars
    /\ [](\A p \in Procs : pc[p] = "caller" => txn[p].active)
    /\ []((SaveReturned /\ last.call.db = "tx" /\ last.ret.err \in {"nil", errIO, errScp}) =>
            (pc[last.proc] = "caller" /\ LastRecordsIn(LastFiles, LastLinks)))
    /\ [][\A p \in Procs :
            (pc[p] = "caller" /\ pc'[p] # "caller") =>
                (txn'[p] = NoTxn /\ (EndsAsCommit(p) \/ EndsAsRollback))]_vars

\* The first call, a Save to an object on the caller's transaction, has
\* returned the copy error: its FileRecord and LinkRecord are staged in the
\* open transaction and no row is committed.
Wit_C19 ==
    /\ SaveReturned /\ last.call.db = "tx" /\ last.ret.err = errScp
    /\ last.call.object # "" /\ calls = 1
    /\ pc[last.proc] = "caller" /\ txn[last.proc].active
    /\ txn[last.proc].files # << >> /\ txn[last.proc].links # << >>
    /\ filesTbl = << >> /\ linksTbl = << >>


\* C20 (as claimed): a Save that returns an error returns no hashes.
CE_C20 == (SaveReturned /\ last.ret.err # "nil") => last.ret.hashes = << >>
====
